---------------------------- MODULE Spec2Model ----------------------------
(***************************************************************************)
(* A model of chassis-frontend.c, the bootstrap helpers of mysql-proxy:    *)
(* base directory, Lua search paths, plugin loading, the registration of   *)
(* each plugin's option group with the repeated argument parse, the        *)
(* config-file overlay and the path resolution, the config-file open, and  *)
(* the writing of the PID file.                                            *)
(*                                                                         *)
(* A C string is a sequence of atoms: the atom "/" is G_DIR_SEPARATOR, the *)
(* atom "," is the list separator of the config file, every other atom is  *)
(* a run of other characters.  The NULL pointer is the one-atom sequence   *)
(* NULL, which no string contains.  An array of strings is the sequence of *)
(* the atoms of its strings, each string followed by the atom NUL.  Option *)
(* names and the text of argv elements are strings.                        *)
(***************************************************************************)
EXTENDS Integers, Sequences, FiniteSets, TLC

VARIABLES
    pc,            \* the stage the bootstrap is at
    argv0,         \* argv[1..] as the process received it
    argv,          \* argv[1..] as the parses have left it
    argv_at,       \* for each element of argv, its position in argv0
    ctx,           \* the GOptionContext: main entries, groups, flags
    slots,         \* the target slots (arg_data) of all option entries
    keyfile,       \* the GKeyFile the caller holds, or none
    kf_trace,      \* what chassis_frontend_open_config_file did, in order
    plugin_names,  \* the requested names handed to load_plugins
    plugins,       \* the caller's plugin collection (GPtrArray)
    idx,           \* the loop index i of chassis_frontend_init_plugins
    ret,           \* the return value of each function that has returned
    calls,         \* the calls made on the option context and the slots, in order
    writes,        \* the slot writes the argument parses made, in order
    n_critical,    \* number of g_critical diagnostics so far
    base_dir,      \* the caller's base-directory slot
    basedir_in,    \* the base-directory slot as it was before init_basedir
    get_basedir_calls, \* number of chassis_get_basedir calls
    set_path,      \* the flag values handed to init_lua_path / init_lua_cpath
    env0,          \* the environment before the Lua paths are set
    env,           \* the environment: LUA_PATH and LUA_CPATH
    setenv_fails,  \* the variables g_setenv() fails to set on this system
    pidfile        \* the PID file, its descriptor, the GError of write_pidfile,
                   \* and what open(), getpid() and write() returned

vars == <<pc, argv0, argv, argv_at, ctx, slots, keyfile, kf_trace, plugin_names, plugins,
          idx, ret, calls, writes, n_critical, base_dir, basedir_in,
          get_basedir_calls, set_path, env0, env, setenv_fails, pidfile>>

\* ---------------------------------------------------------------- bounds

MaxArgs == 2
MaxNames == 2
MaxKeys == 2

\* ---------------------------------------------------------------- strings

NULL == <<"NULL">>
SEP == "/"
LSEP == ","
NUL == "NUL"

\* g_path_is_absolute() on a system whose G_DIR_SEPARATOR is '/'
g_path_is_absolute(s) == Len(s) > 0 /\ s[1] = SEP

RECURSIVE StripLeading(_)
StripLeading(s) ==
    IF Len(s) > 0 /\ s[1] = SEP THEN StripLeading(Tail(s)) ELSE s

RECURSIVE StripTrailing(_)
StripTrailing(s) ==
    IF Len(s) > 0 /\ s[Len(s)] = SEP
    THEN StripTrailing(SubSeq(s, 1, Len(s) - 1)) ELSE s

\* g_build_filename() (g_build_path_va with separator "/"): empty elements are
\* ignored; the leading separators of the first element are kept, the cores of
\* the elements (without leading and trailing separators) are joined by one
\* separator each, and the trailing separators of the last element are kept.
\* A lone element made of separators only is returned as it is.
Lead(e) == SubSeq(e, 1, Len(e) - Len(StripLeading(e)))
Core(e) == StripTrailing(StripLeading(e))
Trail(e) ==
    IF Len(Core(e)) = 0 THEN e
    ELSE SubSeq(e, Len(StripTrailing(e)) + 1, Len(e))

RECURSIVE JoinCores(_, _, _)
JoinCores(cores, k, acc) ==
    IF k > Len(cores) THEN acc
    ELSE JoinCores(cores, k + 1,
                   IF k = 1 THEN cores[k] ELSE acc \o <<SEP>> \o cores[k])

\* the arguments of a NULL-terminated argument list: those before the first NULL
RECURSIVE UpToNull(_)
UpToNull(elems) ==
    IF Len(elems) = 0 \/ elems[1] = NULL THEN <<>>
    ELSE <<elems[1]>> \o UpToNull(Tail(elems))

g_build_filename(elems) ==
    LET ne == SelectSeq(UpToNull(elems), LAMBDA e : Len(e) > 0)
        cores == SelectSeq([k \in 1..Len(ne) |-> Core(ne[k])],
                           LAMBDA c : Len(c) > 0)
    IN  IF Len(ne) = 0 THEN <<>>
        ELSE IF Len(ne) = 1 /\ Len(Core(ne[1])) = 0 THEN ne[1]
        ELSE Lead(ne[1]) \o JoinCores(cores, 1, <<>>) \o Trail(ne[Len(ne)])

\* ---------------------------------------------------------------- options

\* A GOptionEntry: long name, argument kind, target slot (arg_data).
Entry(n, a, sl) == [long_name |-> n, arg |-> a, slot |-> sl]

\* chassis_options_set_cmdline_only_options(): the options of the base pass
BaseMainEntries ==
    << Entry("version", "NONE", "print_version"),
       Entry("defaults-file", "STRING", "config_file") >>

\* The modules that exist in the plugin directory and the option entries each
\* one exports (chassis_plugin_get_options); "c" exports none.  "a" and "b"
\* both declare the long name "name", "b" as a list-valued option.
Modules == {"a", "b", "c"}

PluginEntries(name) ==
    CASE name = "a" -> << Entry("path", "FILENAME", "a_path"),
                          Entry("name", "STRING", "a_name") >>
      [] name = "b" -> << Entry("name", "STRING_ARRAY", "b_name"),
                          Entry("dir", "FILENAME", "b_dir") >>
      [] OTHER -> <<>>

\* HasOptions taking the plugin's get_options for given
HasOptions_always(p) == TRUE

\* chassis_plugin_get_options(p) != NULL
HasOptions(p) == Len(PluginEntries(p.name)) > 0

Slots == {"print_version", "config_file", "a_path", "a_name", "b_name", "b_dir"}

\* The entries of the context in lookup order: the main group, then the groups
\* in the order they were added (g_option_context_parse tries them so).
RECURSIVE GroupEntries(_, _)
GroupEntries(groups, k) ==
    IF k > Len(groups) THEN <<>>
    ELSE groups[k].entries \o GroupEntries(groups, k + 1)

AllEntries(c) == c.main \o GroupEntries(c.groups, 1)

\* An argv element "--name=val", or "--name" alone (val = NoArg); the element
\* "--" is Tok("", NoArg).
NoArg == <<"NOARG">>
Tok(n, v) == [name |-> n, val |-> v]

\* the characters of a C string given as atoms
RECURSIVE Flat(_)
Flat(v) == IF Len(v) = 0 THEN "" ELSE v[1] \o Flat(Tail(v))

\* the atoms of the characters s[i..], after the atoms acc and the run so far
RECURSIVE AtomsFrom(_, _, _, _)
AtomsFrom(s, i, run, acc) ==
    IF i > Len(s) THEN IF run = "" THEN acc ELSE Append(acc, run)
    ELSE IF SubSeq(s, i, i) \in {SEP, LSEP}
         THEN AtomsFrom(s, i + 1, "",
                        (IF run = "" THEN acc ELSE Append(acc, run))
                            \o <<SubSeq(s, i, i)>>)
         ELSE AtomsFrom(s, i + 1, run \o SubSeq(s, i, i), acc)

\* the C string with the characters s, as atoms
Atoms(s) == AtomsFrom(s, 1, "", <<>>)

\* the characters of an argv element after its leading "--"
Text(t) == IF t.val = NoArg THEN t.name ELSE t.name \o "=" \o Flat(t.val)

\* the characters of an argv element
TokText(t) == "--" \o Text(t)

\* the position of the first '-' of the string s from position i on, 0 when
\* there is none (strchr)
RECURSIVE DashFrom(_, _)
DashFrom(s, i) ==
    IF i > Len(s) THEN 0
    ELSE IF SubSeq(s, i, i) = "-" THEN i
    ELSE DashFrom(s, i + 1)

FirstDash(s) == DashFrom(s, 1)

\* the position of the first '-' of the text of the element t, its value
\* included
TextDash(t) ==
    IF FirstDash(t.name) > 0 THEN FirstDash(t.name)
    ELSE IF t.val = NoArg \/ FirstDash(Flat(t.val)) = 0 THEN 0
    ELSE Len(t.name) + 1 + FirstDash(Flat(t.val))

\* parse_long_option() on the text a from its character off + 1 on: the long
\* name ln is what the text starts with there, and the end of the text or '='
\* follows it (strncmp over the length of ln)
LongMatches(ln, a, off) ==
    /\ Len(a) - off >= Len(ln)
    /\ SubSeq(a, off + 1, off + Len(ln)) = ln
    /\ \/ Len(a) = off + Len(ln)
       \/ SubSeq(a, off + Len(ln) + 1, off + Len(ln) + 1) = "="

\* an entry matches "--name" and "--name=val": when the element's name is as
\* long as the long name, the two are the same
NameMatches(ln, t, a) ==
    IF Len(t.name) = Len(ln) THEN t.name = ln ELSE LongMatches(ln, a, 0)

Matches(e, t) == NameMatches(e.long_name, t, Text(t))

\* "--<group>-<long name>": the text before the first '-' of the element's
\* text, value included (strchr), is not empty and is what the group's name
\* starts with (strncmp over the length of that text), and the entry matches
\* the text after that '-'
AliasPrefix(g, a, d) ==
    /\ d > 1
    /\ Len(g.name) >= d - 1
    /\ SubSeq(g.name, 1, d - 1) = SubSeq(a, 1, d - 1)

AliasMatches(g, e, t) ==
    /\ AliasPrefix(g, Text(t), TextDash(t))
    /\ LongMatches(e.long_name, Text(t), TextDash(t))

\* the value "--name=val" gives: the characters after the '=' that follows the
\* long name, which ends at character n of the text a of the element t
ValueAfter(t, a, n) ==
    IF t.val # NoArg /\ n = Len(t.name) THEN t.val
    ELSE Atoms(SubSeq(a, n + 2, Len(a)))

\* The Change record the context keeps for a slot it has written: the value the
\* slot had before the context first wrote it (for an option without argument
\* none is recorded and the record holds FALSE), and the array the context has
\* allocated for a list-valued option, to which every value is appended.
GetChange(ch, e, sl) ==
    IF \E x \in ch : x.slot = e.slot THEN CHOOSE x \in ch : x.slot = e.slot
    ELSE [slot |-> e.slot,
          prev |-> IF e.arg = "NONE" THEN <<"0">> ELSE sl[e.slot],
          arr |-> <<>>]

\* the change record of the entry's slot after the value v was appended
Grown(c0, e, v) ==
    IF e.arg = "STRING_ARRAY" THEN [c0 EXCEPT !.arr = @ \o v \o <<NUL>>] ELSE c0

\* parse_arg(): the parse state s after the value v, given by the element at
\* position s.i (its value by the element at vat, 0 when it carries its own),
\* was written to the slot of entry e with the change record c0
WriteArg(s, e, v, vat, c0) ==
    [s EXCEPT !.sl[e.slot] = CASE e.arg = "NONE" -> <<"1">>
                               [] e.arg = "STRING_ARRAY" -> Grown(c0, e, v).arr
                               [] OTHER -> v,
              !.ch = (@ \ {c0}) \cup {Grown(c0, e, v)},
              !.w = Append(@, [slot |-> e.slot, arg |-> e.arg,
                               val |-> IF e.arg = "NONE" THEN <<"1">> ELSE v,
                               pos |-> s.i, vpos |-> vat]),
              !.gone = @ \cup {s.i},
              !.parsed = TRUE]

parse_arg(s, e, v, vat) == WriteArg(s, e, v, vat, GetChange(s.ch, e, s.sl))

\* parse_long_option(): the entries es[j..] of one group tried on the element
\* t = av[s.i] with text a, the long name looked for from character off + 1.
\* An entry without argument whose long name is all of the text is set and
\* ends the search.  Any other entry whose long name matches takes the value
\* after "=", else the next element whatever it is, and is an error when
\* there is none; the search then goes on with the group's next entry.
RECURSIVE parse_long_option(_, _, _, _, _, _, _)
parse_long_option(es, j, av, t, a, off, s) ==
    IF j > Len(es) \/ s.i > Len(av) THEN s
    ELSE IF /\ es[j].arg = "NONE"
            /\ Len(a) = off + Len(es[j].long_name)
            /\ SubSeq(a, off + 1, Len(a)) = es[j].long_name
         THEN parse_arg(s, es[j], <<"1">>, 0)
    ELSE IF ~(IF off = 0 THEN NameMatches(es[j].long_name, t, a)
              ELSE LongMatches(es[j].long_name, a, off))
         THEN parse_long_option(es, j + 1, av, t, a, off, s)
    ELSE IF Len(a) > off + Len(es[j].long_name)
         THEN parse_long_option(es, j + 1, av, t, a, off,
                  parse_arg(s, es[j],
                            ValueAfter(t, a, off + Len(es[j].long_name)), 0))
    ELSE IF s.i < Len(av)
         THEN parse_long_option(es, j + 1, av, t, a, off,
                  [parse_arg(s, es[j], Atoms(TokText(av[s.i + 1])), s.i + 1)
                      EXCEPT !.gone = @ \cup {s.i + 1}, !.i = s.i + 1])
    ELSE [s EXCEPT !.ok = FALSE]

\* the groups g.. of the context tried in the order they were added, up to the
\* first that parses the element
RECURSIVE TryGroups(_, _, _, _, _, _)
GroupTried(groups, g, av, t, a, r) ==
    IF ~r.ok \/ r.parsed THEN r ELSE TryGroups(groups, g + 1, av, t, a, r)

TryGroups(groups, g, av, t, a, s) ==
    IF g > Len(groups) THEN s
    ELSE GroupTried(groups, g, av, t, a,
                    parse_long_option(groups[g].entries, 1, av, t, a, 0, s))

\* the groups g.. whose name starts with the text before the element's first
\* '-', at position d, tried on the text after it
RECURSIVE TryAliases(_, _, _, _, _, _, _)
AliasTried(groups, g, av, t, a, d, r) ==
    IF ~r.ok \/ r.parsed THEN r ELSE TryAliases(groups, g + 1, av, t, a, d, r)

TryAliases(groups, g, av, t, a, d, s) ==
    IF g > Len(groups) THEN s
    ELSE IF ~AliasPrefix(groups[g], a, d)
         THEN TryAliases(groups, g + 1, av, t, a, d, s)
    ELSE AliasTried(groups, g, av, t, a, d,
                    parse_long_option(groups[g].entries, 1, av, t, a, d, s))

\* "--help", "--help-all" and "--help-<group>" for a group of the context
HelpOption(c, a) ==
    \/ a \in {"help", "help-all"}
    \/ \E g \in 1..Len(c.groups) : a = "help-" \o c.groups[g].name

\* The loop of g_option_context_parse() over the elements of argv, which all
\* start with "--".  The element "--" ends the parsing of options: what
\* follows it is left alone, and "--" itself is removed only when nothing
\* follows it.  Any other element is tried on the main entries, then on the
\* groups, then as a group-qualified name; one that nothing parses stays in
\* argv when unknown options are ignored and is an error otherwise.  With the
\* help enabled a help option prints the help and ends the process.
RECURSIVE ParseFrom(_, _, _)
Advance(c, av, r) == ParseFrom(c, av, [r EXCEPT !.i = @ + 1])

AliasesTried(c, av, r) ==
    IF ~r.ok THEN r
    ELSE IF r.parsed \/ c.ignore_unknown THEN Advance(c, av, r)
    ELSE [r EXCEPT !.ok = FALSE]

GroupsTried(c, av, t, a, r) ==
    IF ~r.ok THEN r
    ELSE IF r.parsed THEN Advance(c, av, r)
    ELSE AliasesTried(c, av,
             IF TextDash(t) > 1
             THEN TryAliases(c.groups, 1, av, t, a, TextDash(t), r)
             ELSE r)

MainTried(c, av, t, a, r) ==
    IF ~r.ok THEN r
    ELSE IF r.parsed THEN Advance(c, av, r)
    ELSE GroupsTried(c, av, t, a, TryGroups(c.groups, 1, av, t, a, r))

ParseElement(c, av, t, a, s) ==
    IF s.stop THEN Advance(c, av, [s EXCEPT !.sep = 0])
    ELSE IF t = Tok("", NoArg)
         THEN Advance(c, av, [s EXCEPT !.stop = TRUE, !.sep = s.i])
    ELSE IF c.help_enabled /\ HelpOption(c, a) THEN [s EXCEPT !.exit = TRUE]
    ELSE MainTried(c, av, t, a,
                   parse_long_option(c.main, 1, av, t, a, 0,
                                     [s EXCEPT !.parsed = FALSE]))

ParseFrom(c, av, s) ==
    IF s.i > Len(av) THEN s
    ELSE ParseElement(c, av, av[s.i], Text(av[s.i]), s)

\* the slots after the context has reverted all its changes
Revert(ch, sl) ==
    [s \in DOMAIN sl |->
        IF \E x \in ch : x.slot = s
        THEN (CHOOSE x \in ch : x.slot = s).prev
        ELSE sl[s]]

\* the positions 1..n without those in gone, in order
Kept(n, gone) == SelectSeq([k \in 1..n |-> k], LAMBDA k : k \notin gone)

\* What a parse leaves, given the state r its loop ended in.  On success the
\* elements written to a slot or taken as a value, and a closing "--", are
\* removed from argv (kept lists the positions that stay, writes the slot
\* writes in order).  The context keeps its change records across its parses;
\* on an error it reverts every one of them, those of its earlier successful
\* parses and those of the failing one, drops them, and leaves argv as it was.
ParseOutcome(c, av, r) ==
    IF r.exit
    THEN [ok |-> TRUE, exit |-> TRUE, argv |-> av, kept |-> Kept(Len(av), {}),
          slots |-> r.sl, writes |-> r.w, changes |-> r.ch]
    ELSE IF r.ok
    THEN [ok |-> TRUE, exit |-> FALSE,
          argv |-> [k \in 1..Len(Kept(Len(av), r.gone \cup {r.sep})) |->
                        av[Kept(Len(av), r.gone \cup {r.sep})[k]]],
          kept |-> Kept(Len(av), r.gone \cup {r.sep}),
          slots |-> r.sl, writes |-> r.w, changes |-> r.ch]
    ELSE [ok |-> FALSE, exit |-> FALSE, argv |-> av, kept |-> Kept(Len(av), {}),
          slots |-> Revert(r.ch, r.sl), writes |-> <<>>, changes |-> {}]

\* g_option_context_parse(c, &argc, &argv, &gerr)
g_option_context_parse(c, av, sl) ==
    ParseOutcome(c, av,
        ParseFrom(c, av, [i |-> 1, sl |-> sl, ch |-> c.changes, w |-> <<>>,
                          gone |-> {}, parsed |-> FALSE, ok |-> TRUE,
                          exit |-> FALSE, stop |-> FALSE, sep |-> 0]))

\* an entry of the context matches the element, by its long name or by its
\* group-qualified name
Declares(c, t) ==
    \/ \E k \in 1..Len(c.main) : Matches(c.main[k], t)
    \/ \E g \in 1..Len(c.groups) :
          \E k \in 1..Len(c.groups[g].entries) : Matches(c.groups[g].entries[k], t)
    \/ \E g \in 1..Len(c.groups) :
          \E k \in 1..Len(c.groups[g].entries) :
              AliasMatches(c.groups[g], c.groups[g].entries[k], t)

\* the entries of groups[k..] that the element denotes by its group-qualified
\* name, in lookup order
RECURSIVE AliasFrom(_, _, _)
AliasFrom(groups, k, t) ==
    IF k > Len(groups) THEN <<>>
    ELSE SelectSeq(groups[k].entries, LAMBDA e : AliasMatches(groups[k], e, t))
         \o AliasFrom(groups, k + 1, t)

\* the entry the parse writes the element to first: the first whose long name
\* matches, the main group first and then the groups in order; when none does,
\* the first the group-qualified name matches
Lookup(c, t) ==
    LET es == AllEntries(c)
        plain == { j \in 1..Len(es) : Matches(es[j], t) }
    IN  IF plain # {}
        THEN es[CHOOSE j \in plain : \A h \in plain : j <= h]
        ELSE AliasFrom(c.groups, 1, t)[1]

\* ---------------------------------------------------------------- config file

\* A GKeyFile: the set of its (group, key, value) entries, or no key file.
NoKeyfile == [isnull |-> TRUE, entries |-> {}]
KeyfileOf(es) == [isnull |-> FALSE, entries |-> es]
KV(g, k, v) == [group |-> g, key |-> k, val |-> v]

\* a value g_key_file_get_string() reports G_KEY_FILE_ERROR_INVALID_VALUE for
INVALID == <<"INVALID">>

g_key_file_has_group(kf, g) == \E e \in kf.entries : e.group = g
g_key_file_has_key(kf, g, k) == \E e \in kf.entries : e.group = g /\ e.key = k
g_key_file_get_string(kf, g, k) ==
    (CHOOSE e \in kf.entries : e.group = g /\ e.key = k).val

\* g_key_file_get_string_list(): the value split at the list separator
RECURSIVE SplitList(_, _, _)
SplitList(v, k, acc) ==
    IF k > Len(v) THEN Append(acc, NUL)
    ELSE SplitList(v, k + 1, Append(acc, IF v[k] = LSEP THEN NUL ELSE v[k]))

g_key_file_get_string_list(kf, g, k) ==
    IF Len(g_key_file_get_string(kf, g, k)) = 0 THEN <<>>
    ELSE SplitList(g_key_file_get_string(kf, g, k), 1, <<>>)

\* chassis_keyfile_to_options(keyfile, group, entries): every entry whose slot
\* the command line has not set and whose long name is a key of the group gets
\* the key's value, a list-valued entry the list of the value's parts; a value
\* that cannot be read is reported and makes the call return -1 after all
\* entries were tried.
RECURSIVE OverlayFrom(_, _, _, _, _, _)
OverlayFrom(kf, g, es, k, sl, r) ==
    IF k > Len(es) THEN [ret |-> r, slots |-> sl]
    ELSE LET e == es[k] IN
         IF sl[e.slot] # NULL \/ ~g_key_file_has_key(kf, g, e.long_name)
         THEN OverlayFrom(kf, g, es, k + 1, sl, r)
         ELSE LET v == g_key_file_get_string(kf, g, e.long_name) IN
              IF v = INVALID
              THEN OverlayFrom(kf, g, es, k + 1, sl, "-1")
              ELSE OverlayFrom(kf, g, es, k + 1,
                       [sl EXCEPT ![e.slot] =
                           IF e.arg = "STRING_ARRAY"
                           THEN g_key_file_get_string_list(kf, g, e.long_name)
                           ELSE v], r)

chassis_keyfile_to_options(kf, g, es, sl) ==
    IF kf.isnull THEN [ret |-> "-1", slots |-> sl]
    ELSE IF ~g_key_file_has_group(kf, g) THEN [ret |-> "0", slots |-> sl]
    ELSE OverlayFrom(kf, g, es, 1, sl, "0")

\* chassis_resolve_path(base_dir, &filename): a relative file name is joined
\* to the base directory, an absolute one and an unset one are left alone.
chassis_resolve_path(bd, v) ==
    IF bd = NULL \/ v = NULL THEN v
    ELSE IF g_path_is_absolute(v) THEN v
    ELSE g_build_filename(<<bd, <<SEP>>, v>>)

\* chassis_keyfile_resolve_path(base_dir, entries): resolves the slot of every
\* entry whose argument is a file name.
RECURSIVE ResolveFrom(_, _, _, _)
ResolveFrom(bd, es, k, sl) ==
    IF k > Len(es) THEN sl
    ELSE IF es[k].arg = "FILENAME"
         THEN ResolveFrom(bd, es, k + 1,
                  [sl EXCEPT ![es[k].slot] = chassis_resolve_path(bd, @)])
         ELSE ResolveFrom(bd, es, k + 1, sl)

chassis_keyfile_resolve_path(bd, es, sl) == ResolveFrom(bd, es, 1, sl)

\* ---------------------------------------------------------------- inputs

\* sequences over S of length at most n
SeqsUpTo(S, n) == UNION { [1..m -> S] : m \in 0..n }

\* the argv elements: options with and without "=value", the group-qualified
\* name of b's "dir", and "--"
ArgTokens ==
    { Tok("defaults-file", <<"f">>), Tok("defaults-file", NoArg),
      Tok("path", <<"y">>),
      Tok("name", <<"n">>), Tok("name", NoArg),
      Tok("b-dir", <<SEP, "x">>),
      Tok("", NoArg) }

\* the command lines, and the one on which a value-less option of b takes the
\* "--" before an option of a as its value
ArgvInputs ==
    SeqsUpTo(ArgTokens, MaxArgs)
        \cup { << Tok("dir", NoArg), Tok("", NoArg), Tok("path", <<"y">>) >> }

KeyfileCandidates ==
    { KV("mysql-proxy", "path", <<"k">>),
      KV("mysql-proxy", "name", <<"m", LSEP, "k">>),
      KV("mysql-proxy", "name", INVALID),
      KV("a", "path", <<SEP, "c">>) }

\* the contents a config file can have: a key has one value in its group
KeyfileInputs ==
    { es \in SUBSET KeyfileCandidates :
        /\ Cardinality(es) <= MaxKeys
        /\ \A e1, e2 \in es :
              (e1.group = e2.group /\ e1.key = e2.key) => e1 = e2 }

\* the requested plugin names: NULL, or a list; "x" names no module
RequestNames == {"", "a", "b", "c", "x"}
NameInputs == {NULL} \cup SeqsUpTo(RequestNames, MaxNames)

BaseDir == <<SEP, "o">>
PluginDir == g_build_filename(<<BaseDir, <<"lib">>, <<"mysql-proxy">>, <<"plugins">>>>)

Funcs == {"init_basedir", "init_lua_path", "init_lua_cpath", "init_base_options",
          "open_config_file", "load_plugins", "init_plugins", "write_pidfile"}

\* no PID file written yet: no descriptor, no GError, the file as it was
NoPidfile == [fd |-> "none", content |-> NULL, gerr |-> "none", pid |-> 0,
              before |-> NULL, open_ok |-> FALSE, n |-> 0]

\* what the PID file holds before the call: no such file, or a stale PID
PidfileInputs == {NULL, <<"9", "9">>}

NoCtx == [main |-> <<>>, groups |-> <<>>,
          ignore_unknown |-> FALSE, help_enabled |-> TRUE, changes |-> {}]

NoSlots == [s \in Slots |-> IF s = "print_version" THEN <<"0">> ELSE NULL]

\* ---------------------------------------------------------------- plugin loading

\* "%s%c%s%s.%s": plugin_dir, G_DIR_SEPARATOR, G_MODULE_PREFIX, name, suffix
PluginFilename(dir, name) == dir \o <<SEP, "lib", name, ".", "so">>

\* chassis_plugin_load(): the plugin of the module file, if the file exists
ModuleFileExists(fn) == \E m \in Modules : fn = PluginFilename(PluginDir, m)
chassis_plugin_load(fn) ==
    [name |-> CHOOSE m \in Modules : fn = PluginFilename(PluginDir, m)]

\* LoadFrom with the test for the empty name left out
RECURSIVE LoadFrom_noskip(_, _, _, _)
LoadFrom_noskip(pl, dir, names, k) ==
    IF names = NULL \/ k > Len(names)
    THEN [ret |-> "0", plugins |-> pl, critical |-> 0]
    ELSE LET fn == PluginFilename(dir, names[k]) IN
         IF ~ModuleFileExists(fn)
         THEN [ret |-> "-1", plugins |-> pl, critical |-> 1]
         ELSE LoadFrom_noskip(Append(pl, chassis_plugin_load(fn)), dir, names, k + 1)

\* the loop of chassis_frontend_load_plugins from plugin_names[k] on
RECURSIVE LoadFrom(_, _, _, _)
LoadFrom(pl, dir, names, k) ==
    IF names = NULL \/ k > Len(names)
    THEN [ret |-> "0", plugins |-> pl, critical |-> 0]
    ELSE IF names[k] = ""
    THEN LoadFrom(pl, dir, names, k + 1)
    ELSE LET fn == PluginFilename(dir, names[k]) IN
         IF ~ModuleFileExists(fn)
         THEN [ret |-> "-1", plugins |-> pl, critical |-> 1]
         ELSE LoadFrom(Append(pl, chassis_plugin_load(fn)), dir, names, k + 1)

\* ---------------------------------------------------------------- the bootstrap

Init ==
    /\ pc = "init_base_options"
    /\ argv0 \in ArgvInputs
    /\ argv = argv0
    /\ argv_at = [k \in 1..Len(argv0) |-> k]
    /\ ctx = NoCtx
    /\ slots = NoSlots
    /\ keyfile = NoKeyfile
    /\ kf_trace = <<>>
    /\ plugin_names = NULL
    /\ plugins = <<>>
    /\ idx = 1
    /\ ret = [f \in Funcs |-> "none"]
    /\ calls = <<>>
    /\ writes = <<>>
    /\ n_critical = 0
    /\ base_dir = BaseDir
    /\ basedir_in = BaseDir
    /\ get_basedir_calls = 0
    /\ set_path = [LUA_PATH |-> NULL, LUA_CPATH |-> NULL]
    /\ env0 = [LUA_PATH |-> NULL, LUA_CPATH |-> NULL]
    /\ env = env0
    /\ setenv_fails = {}
    /\ pidfile = NoPidfile

env_vars == <<base_dir, basedir_in, get_basedir_calls, set_path, env0, env,
              setenv_fails, pidfile>>

\* the context after g_option_context_add_main_entries, set_help_enabled(FALSE)
\* and set_ignore_unknown_options(TRUE)
BaseOptionsContext(c) ==
    [c EXCEPT !.main = c.main \o BaseMainEntries,
              !.help_enabled = FALSE,
              !.ignore_unknown = TRUE]

\* the argv0 positions of the elements a parse has left, and the slot writes of
\* a parse with the argv0 positions of the elements that gave them
Left(at, kept) == [k \in 1..Len(kept) |-> at[kept[k]]]
Located(at, w) ==
    [k \in 1..Len(w) |->
        [w[k] EXCEPT !.pos = at[@], !.vpos = IF @ = 0 THEN 0 ELSE at[@]]]

chassis_frontend_init_base_options ==
    /\ pc = "init_base_options"
    /\ LET c == BaseOptionsContext(ctx)
           r == g_option_context_parse(c, argv, slots)
       IN  /\ ctx' = [c EXCEPT !.changes = r.changes]
           /\ argv' = r.argv
           /\ argv_at' = Left(argv_at, r.kept)
           /\ slots' = r.slots
           /\ calls' = Append(calls, <<"parse", "main">>)
           /\ writes' = writes \o Located(argv_at, r.writes)
           /\ ret' = [ret EXCEPT !["init_base_options"] =
                             IF r.exit THEN @ ELSE IF r.ok THEN "0" ELSE "-1"]
           /\ pc' = IF r.exit THEN "exit"
                    ELSE IF ~r.ok THEN "failed"
                    ELSE IF r.slots["config_file"] # NULL THEN "open_config_file"
                    ELSE "load_plugins"
    /\ UNCHANGED <<argv0, keyfile, kf_trace, plugin_names, plugins, idx,
                   n_critical, env_vars>>

\* OpenConfigFile with the result of chassis_filemode_check ignored
OpenConfigFile_nocheck(mode_ok, load_ok, contents) ==
    IF ~load_ok
    THEN [keyfile |-> NoKeyfile,
          trace |-> <<IF mode_ok THEN "filemode_check:ok" ELSE "filemode_check:fail",
                      "g_key_file_new", "load_from_file:fail", "g_key_file_free">>,
          critical |-> 1]
    ELSE [keyfile |-> KeyfileOf(contents),
          trace |-> <<IF mode_ok THEN "filemode_check:ok" ELSE "filemode_check:fail",
                      "g_key_file_new", "load_from_file:ok">>,
          critical |-> 0]

\* chassis_frontend_open_config_file(filename): mode_ok is the outcome of
\* chassis_filemode_check, load_ok that of g_key_file_load_from_file, and
\* contents what the file holds.
OpenConfigFile(mode_ok, load_ok, contents) ==
    IF ~mode_ok
    THEN [keyfile |-> NoKeyfile, trace |-> <<"filemode_check:fail">>,
          critical |-> 0]
    ELSE IF ~load_ok
    THEN [keyfile |-> NoKeyfile,
          trace |-> <<"filemode_check:ok", "g_key_file_new",
                      "load_from_file:fail", "g_key_file_free">>,
          critical |-> 1]
    ELSE [keyfile |-> KeyfileOf(contents),
          trace |-> <<"filemode_check:ok", "g_key_file_new",
                      "load_from_file:ok">>,
          critical |-> 0]

chassis_frontend_open_config_file ==
    /\ pc = "open_config_file"
    /\ \E mode_ok, load_ok \in BOOLEAN :
       \E contents \in IF mode_ok /\ load_ok THEN KeyfileInputs ELSE {{}} :
          LET r == OpenConfigFile(mode_ok, load_ok, contents)
          IN  /\ keyfile' = r.keyfile
              /\ kf_trace' = r.trace
              /\ n_critical' = n_critical + r.critical
              /\ ret' = [ret EXCEPT !["open_config_file"] =
                                IF r.keyfile.isnull THEN "NULL" ELSE "keyfile"]
              /\ pc' = IF r.keyfile.isnull THEN "failed" ELSE "load_plugins"
    /\ UNCHANGED <<argv0, argv, argv_at, ctx, slots, plugin_names, plugins, idx,
                   calls, writes, env_vars>>

chassis_frontend_load_plugins ==
    /\ pc = "load_plugins"
    /\ \E names \in NameInputs :
          LET r == LoadFrom(plugins, PluginDir, names, 1)
          IN  /\ plugin_names' = names
              /\ plugins' = r.plugins
              /\ n_critical' = n_critical + r.critical
              /\ ret' = [ret EXCEPT !["load_plugins"] = r.ret]
              /\ pc' = IF r.ret = "0" THEN "init_plugins" ELSE "failed"
    /\ UNCHANGED <<argv0, argv, argv_at, ctx, slots, keyfile, kf_trace, idx,
                   calls, writes, env_vars>>

\* ---------------------------------------------------------------- plugin options

\* g_option_group_new(p->name, ...), g_option_group_add_entries and
\* g_option_context_add_group: the group is appended to the context's groups
AddPluginGroup(c, p) ==
    [c EXCEPT !.groups = Append(@, [name |-> p.name,
                                    entries |-> PluginEntries(p.name)])]

\* ParseNewOptions with the parse left out
ParseNewOptions_skip(c, av, sl) ==
    [ok |-> TRUE, exit |-> FALSE, argv |-> av, kept |-> Kept(Len(av), {}),
     slots |-> sl, writes |-> <<>>, changes |-> c.changes]

\* ParseNewOptions run as a strict parse: an element no entry declares is an error
ParseNewOptions_strict(c, av, sl) ==
    g_option_context_parse([c EXCEPT !.ignore_unknown = FALSE], av, sl)

\* ParseNewOptions leaving the options it applied in argv
ParseNewOptions_keep(c, av, sl) ==
    [g_option_context_parse(c, av, sl)
        EXCEPT !.argv = av, !.kept = Kept(Len(av), {})]

\* the parse of the new options
ParseNewOptions(c, av, sl) == g_option_context_parse(c, av, sl)

\* the group name handed to chassis_keyfile_to_options
ConfigGroupName(p) == "mysql-proxy"

\* OverlayOptions with the return value of chassis_keyfile_to_options ignored
OverlayOptions_unchecked(kf, p, sl) ==
    IF kf.isnull THEN [ret |-> "0", slots |-> sl]
    ELSE [chassis_keyfile_to_options(kf, ConfigGroupName(p),
                                     PluginEntries(p.name), sl)
             EXCEPT !.ret = "0"]

\* if (keyfile) chassis_keyfile_to_options(keyfile, "mysql-proxy", entries)
OverlayOptions(kf, p, sl) ==
    IF kf.isnull THEN [ret |-> "0", slots |-> sl]
    ELSE chassis_keyfile_to_options(kf, ConfigGroupName(p),
                                    PluginEntries(p.name), sl)

\* chassis_keyfile_resolve_path(base_dir, config_entries)
ResolvePaths(bd, p, sl) ==
    chassis_keyfile_resolve_path(bd, PluginEntries(p.name), sl)

\* One pass of the loop body of chassis_frontend_init_plugins for plugin p:
\* the context, argv (with the positions kept of av) and slots it leaves, the
\* calls and the slot writes it made, and whether the function returns -1
\* from it.
InitPluginsBody(p, c, av, sl, kf, bd) ==
    IF ~HasOptions(p)
    THEN [ret |-> "0", ctx |-> c, argv |-> av, kept |-> Kept(Len(av), {}),
          slots |-> sl, calls |-> <<>>, writes |-> <<>>, critical |-> 0]
    ELSE LET c0 == AddPluginGroup(c, p)
             r == ParseNewOptions(c0, av, sl)
             c1 == [c0 EXCEPT !.changes = r.changes]
             w == r.writes
             o == OverlayOptions(kf, p, r.slots)
             did == << <<"add_group", p.name>>, <<"parse", p.name>> >>
         IN  IF r.exit
             THEN [ret |-> "exit", ctx |-> c1, argv |-> r.argv, kept |-> r.kept,
                   slots |-> r.slots, calls |-> did, writes |-> w,
                   critical |-> 0]
             ELSE IF ~r.ok
             THEN [ret |-> "-1", ctx |-> c1, argv |-> r.argv, kept |-> r.kept,
                   slots |-> r.slots, calls |-> did, writes |-> <<>>,
                   critical |-> 1]
             ELSE IF ~kf.isnull /\ o.ret # "0"
             THEN [ret |-> "-1", ctx |-> c1, argv |-> r.argv, kept |-> r.kept,
                   slots |-> o.slots,
                   calls |-> Append(did, <<"overlay", p.name>>),
                   writes |-> w, critical |-> 0]
             ELSE [ret |-> "0", ctx |-> c1, argv |-> r.argv, kept |-> r.kept,
                   slots |-> ResolvePaths(bd, p, o.slots),
                   writes |-> w,
                   calls |-> did
                             \o (IF kf.isnull THEN <<>>
                                 ELSE << <<"overlay", p.name>> >>)
                             \o << <<"resolve", p.name>> >>,
                   critical |-> 0]

\* the loop body for plugins->pdata[i]
chassis_frontend_init_plugins_body ==
    /\ pc = "init_plugins"
    /\ idx <= Len(plugins)
    /\ LET r == InitPluginsBody(plugins[idx], ctx, argv, slots, keyfile, base_dir)
       IN  /\ ctx' = r.ctx
           /\ argv' = r.argv
           /\ argv_at' = Left(argv_at, r.kept)
           /\ slots' = r.slots
           /\ calls' = calls \o r.calls
           /\ writes' = writes \o Located(argv_at, r.writes)
           /\ n_critical' = n_critical + r.critical
           /\ idx' = IF r.ret = "0" THEN idx + 1 ELSE idx
           /\ ret' = IF r.ret = "-1"
                     THEN [ret EXCEPT !["init_plugins"] = "-1"] ELSE ret
           /\ pc' = CASE r.ret = "0" -> pc
                      [] r.ret = "-1" -> "failed"
                      [] OTHER -> "exit"
    /\ UNCHANGED <<argv0, keyfile, kf_trace, plugin_names, plugins, env_vars>>

\* the loop has ended: return 0
chassis_frontend_init_plugins_return ==
    /\ pc = "init_plugins"
    /\ idx > Len(plugins)
    /\ ret' = [ret EXCEPT !["init_plugins"] = "0"]
    /\ pc' = "done"
    /\ UNCHANGED <<argv0, argv, argv_at, ctx, slots, keyfile, kf_trace,
                   plugin_names, plugins, idx, calls, writes, n_critical,
                   env_vars>>

Next ==
    \/ chassis_frontend_init_base_options
    \/ chassis_frontend_open_config_file
    \/ chassis_frontend_load_plugins
    \/ chassis_frontend_init_plugins_body
    \/ chassis_frontend_init_plugins_return

Spec == Init /\ [][Next]_vars

\* ---------------------------------------------------------------- base directory, Lua paths

PrgName == <<"mysql-proxy">>
EnvKeys == {"LUA_PATH", "LUA_CPATH"}

\* what the caller has in its base-directory slot: nothing, an absolute path,
\* a relative one, the empty string
BaseDirInputs == {NULL, BaseDir, <<"r">>, <<"r", SEP, "s">>, <<>>}

\* what chassis_get_basedir(prg_name) can return
GetBasedirResults == {NULL, <<SEP, "d">>}

EnvValues == {NULL, <<>>, <<SEP, "e", SEP, "?.lua">>}
SetPathInputs == {NULL, <<>>, <<"s", SEP, "?.lua">>}

main_vars == <<argv0, argv, argv_at, ctx, slots, keyfile, kf_trace, plugin_names,
               plugins, idx, calls, writes>>

InitEnv ==
    /\ pc = "init_basedir"
    /\ argv0 = <<>>
    /\ argv = <<>>
    /\ argv_at = <<>>
    /\ ctx = NoCtx
    /\ slots = NoSlots
    /\ keyfile = NoKeyfile
    /\ kf_trace = <<>>
    /\ plugin_names = NULL
    /\ plugins = <<>>
    /\ idx = 1
    /\ ret = [f \in Funcs |-> "none"]
    /\ calls = <<>>
    /\ writes = <<>>
    /\ n_critical = 0
    /\ base_dir \in BaseDirInputs
    /\ basedir_in = base_dir
    /\ get_basedir_calls = 0
    /\ set_path = [k \in EnvKeys |-> NULL]
    /\ env0 \in [EnvKeys -> EnvValues]
    /\ env = env0
    /\ setenv_fails \in SUBSET EnvKeys
    /\ pidfile \in {[NoPidfile EXCEPT !.content = f] : f \in PidfileInputs}

\* InitBasedir looking the base directory up when the given one is relative
InitBasedir_lookup(bd, found) ==
    IF bd # NULL /\ g_path_is_absolute(bd)
    THEN [ret |-> "0", base_dir |-> bd, lookups |-> 0, critical |-> 0]
    ELSE IF found = NULL
         THEN [ret |-> "-1", base_dir |-> bd, lookups |-> 1, critical |-> 1]
         ELSE [ret |-> "0", base_dir |-> found, lookups |-> 1, critical |-> 0]

\* chassis_frontend_init_basedir(prg_name, &base_dir); found is what
\* chassis_get_basedir would return
InitBasedir(bd, found) ==
    IF bd # NULL
    THEN IF ~g_path_is_absolute(bd)
         THEN [ret |-> "-1", base_dir |-> bd, lookups |-> 0, critical |-> 1]
         ELSE [ret |-> "0", base_dir |-> bd, lookups |-> 0, critical |-> 0]
    ELSE IF found = NULL
         THEN [ret |-> "-1", base_dir |-> bd, lookups |-> 1, critical |-> 1]
         ELSE [ret |-> "0", base_dir |-> found, lookups |-> 1, critical |-> 0]

chassis_frontend_init_basedir ==
    /\ pc = "init_basedir"
    /\ \E found \in IF base_dir = NULL THEN GetBasedirResults ELSE {NULL} :
          LET r == InitBasedir(base_dir, found)
          IN  /\ base_dir' = r.base_dir
              /\ get_basedir_calls' = get_basedir_calls + r.lookups
              /\ n_critical' = n_critical + r.critical
              /\ ret' = [ret EXCEPT !["init_basedir"] = r.ret]
              /\ pc' = IF r.ret = "0" THEN "init_lua_path" ELSE "failed"
    /\ UNCHANGED <<main_vars, basedir_in, set_path, env0, env, setenv_fails,
                   pidfile>>

\* chassis_frontend_lua_setenv(key, value): g_setenv with overwrite, then the
\* read-back check of the value
chassis_frontend_lua_setenv(e, fails, key, value) ==
    IF key \in fails
    THEN [r |-> "-1", env |-> e, critical |-> 0]
    ELSE LET e1 == [e EXCEPT ![key] = value]
         IN  [r |-> "0", env |-> e1,
              critical |-> IF e1[key] = NULL \/ e1[key] # value THEN 1 ELSE 0]

chassis_frontend_get_default_lua_path(bd, prg) ==
    g_build_filename(<<bd, <<"lib">>, prg, <<"lua">>, <<"?.lua">>>>)

chassis_frontend_get_default_lua_cpath(bd, prg) ==
    g_build_filename(<<bd, <<"lib">>, prg, <<"lua">>, <<"?.so">>>>)

\* InitLuaVar without the test of g_getenv: the default replaces a set variable
InitLuaVar_override(e, fails, key, sp, dflt) ==
    LET r == chassis_frontend_lua_setenv(e, fails, key,
                                         IF sp # NULL THEN sp ELSE dflt)
    IN  [env |-> r.env, critical |-> r.critical + (IF r.r # "0" THEN 1 ELSE 0)]

\* the body shared by chassis_frontend_init_lua_path and _cpath: key is the
\* variable, sp the flag value, dflt the default for the variable
InitLuaVar(e, fails, key, sp, dflt) ==
    IF sp # NULL
    THEN LET r == chassis_frontend_lua_setenv(e, fails, key, sp)
         IN  [env |-> r.env,
              critical |-> r.critical + (IF r.r # "0" THEN 1 ELSE 0)]
    ELSE IF e[key] = NULL
    THEN LET r == chassis_frontend_lua_setenv(e, fails, key, dflt)
         IN  [env |-> r.env,
              critical |-> r.critical + (IF r.r # "0" THEN 1 ELSE 0)]
    ELSE [env |-> e, critical |-> 0]

InitLuaPath(e, fails, sp, bd, prg) ==
    InitLuaVar(e, fails, "LUA_PATH", sp,
               chassis_frontend_get_default_lua_path(bd, prg))

InitLuaCpath(e, fails, sp, bd, prg) ==
    InitLuaVar(e, fails, "LUA_CPATH", sp,
               chassis_frontend_get_default_lua_cpath(bd, prg))

chassis_frontend_init_lua_path ==
    /\ pc = "init_lua_path"
    /\ \E sp \in SetPathInputs :
          LET r == InitLuaPath(env, setenv_fails, sp, base_dir, PrgName)
          IN  /\ set_path' = [set_path EXCEPT !["LUA_PATH"] = sp]
              /\ env' = r.env
              /\ n_critical' = n_critical + r.critical
    /\ ret' = [ret EXCEPT !["init_lua_path"] = "0"]
    /\ pc' = "init_lua_cpath"
    /\ UNCHANGED <<main_vars, base_dir, basedir_in, get_basedir_calls, env0,
                   setenv_fails, pidfile>>

chassis_frontend_init_lua_cpath ==
    /\ pc = "init_lua_cpath"
    /\ \E sp \in SetPathInputs :
          LET r == InitLuaCpath(env, setenv_fails, sp, base_dir, PrgName)
          IN  /\ set_path' = [set_path EXCEPT !["LUA_CPATH"] = sp]
              /\ env' = r.env
              /\ n_critical' = n_critical + r.critical
    /\ ret' = [ret EXCEPT !["init_lua_cpath"] = "0"]
    /\ pc' = "env_done"
    /\ UNCHANGED <<main_vars, base_dir, basedir_in, get_basedir_calls, env0,
                   setenv_fails, pidfile>>

\* ---------------------------------------------------------------- PID file

\* g_strdup_printf("%d", n) for n >= 0: the decimal digits of n
RECURSIVE Decimal(_)
Decimal(n) ==
    LET d == <<"0", "1", "2", "3", "4", "5", "6", "7", "8", "9">>[(n % 10) + 1]
    IN  IF n < 10 THEN <<d>> ELSE Append(Decimal(n \div 10), d)

\* what getpid() can return
Pids == {7, 42, 105}

\* WritePidfile returning from the failed write without close(fd)
WritePidfile_leak(file, open_ok, pid, n) ==
    IF ~open_ok
    THEN [ret |-> "-1", fd |-> "none", content |-> file, gerr |-> "open",
          pid |-> pid]
    ELSE IF n < 0
    THEN [ret |-> "-1", fd |-> "open", content |-> <<>>, gerr |-> "write",
          pid |-> pid]
    ELSE [ret |-> "0", fd |-> "closed",
          content |-> SubSeq(Decimal(pid), 1, n), gerr |-> "none", pid |-> pid]

\* chassis_frontend_write_pidfile(pid_file, &gerr): file is what pid_file
\* holds before the call (NULL: no such file), open_ok whether open() gives a
\* descriptor, pid the process id, n what write() returns
WritePidfile(file, open_ok, pid, n) ==
    IF ~open_ok
    THEN [ret |-> "-1", fd |-> "none", content |-> file, gerr |-> "open",
          pid |-> pid]
    ELSE IF n < 0
    THEN [ret |-> "-1", fd |-> "closed", content |-> <<>>, gerr |-> "write",
          pid |-> pid]
    ELSE [ret |-> "0", fd |-> "closed",
          content |-> SubSeq(Decimal(pid), 1, n), gerr |-> "none", pid |-> pid]

chassis_frontend_write_pidfile ==
    /\ pc = "env_done"
    /\ \E open_ok \in BOOLEAN, pid \in Pids :
          \E n \in -1..Len(Decimal(pid)) :
             LET r == WritePidfile(pidfile.content, open_ok, pid, n)
             IN  /\ pidfile' = [fd |-> r.fd, content |-> r.content,
                                gerr |-> r.gerr, pid |-> r.pid,
                                before |-> pidfile.content,
                                open_ok |-> open_ok, n |-> n]
                 /\ ret' = [ret EXCEPT !["write_pidfile"] = r.ret]
                 /\ pc' = IF r.ret = "0" THEN "pid_done" ELSE "failed"
    /\ UNCHANGED <<main_vars, n_critical, base_dir, basedir_in,
                   get_basedir_calls, set_path, env0, env, setenv_fails>>

NextEnv ==
    \/ chassis_frontend_init_basedir
    \/ chassis_frontend_init_lua_path
    \/ chassis_frontend_init_lua_cpath
    \/ chassis_frontend_write_pidfile

SpecEnv == InitEnv /\ [][NextEnv]_vars

\* ---------------------------------------------------------------- claims

Range(sq) == { sq[k] : k \in 1..Len(sq) }
Last(sq) == sq[Len(sq)]

\* the names of the plugins of a collection, in order
PluginNameSeq(pl) == [k \in 1..Len(pl) |-> pl[k].name]
NonEmptyNames(names) == SelectSeq(names, LAMBDA n : n # "")

\* the entries of the registered plugin groups
RegisteredEntries ==
    LET es == GroupEntries(ctx.groups, 1) IN { es[k] : k \in 1..Len(es) }

InitPluginsSucceeded == ret["init_plugins"] = "0"

\* the values the parses wrote to the slot of e, in order
WrittenTo(e) ==
    LET ws == SelectSeq(writes, LAMBDA x : x.slot = e.slot)
    IN  [k \in 1..Len(ws) |-> ws[k].val]

\* the array of the strings vs
RECURSIVE ArrayOf(_)
ArrayOf(vs) ==
    IF Len(vs) = 0 THEN <<>> ELSE vs[1] \o <<NUL>> \o ArrayOf(Tail(vs))

\* a parse applied an argv element to e, and what the slot of e holds by the
\* parses: the value of the last element applied, for a list-valued option
\* the values of all of them
InArgv(e) == Len(WrittenTo(e)) > 0
ArgvValue(e) ==
    IF e.arg = "STRING_ARRAY" THEN ArrayOf(WrittenTo(e)) ELSE Last(WrittenTo(e))

\* every element of the command line is an option with its value: none is
\* "--", none takes the next element as its value
AllValued == \A k \in 1..Len(argv0) : argv0[k].val # NoArg

\* no element of the command line has the name of e, plain or group-qualified
NotNamed(e) ==
    \A k \in 1..Len(argv0) :
        /\ ~Matches(e, argv0[k])
        /\ \A g \in 1..Len(ctx.groups) : ~AliasMatches(ctx.groups[g], e, argv0[k])

\* the loaded config file has the key of e, in some section
ConfigKeys(e) ==
    IF keyfile.isnull THEN {}
    ELSE { kv \in keyfile.entries : kv.key = e.long_name }

\* the section the overlay reads has a value for e
InConfig(e) ==
    /\ ~keyfile.isnull
    /\ g_key_file_has_key(keyfile, "mysql-proxy", e.long_name)
ConfigValue(e) == g_key_file_get_string(keyfile, "mysql-proxy", e.long_name)

\* v as the slot of e holds it after the path resolution
Resolved(e, v) ==
    IF e.arg = "FILENAME" /\ (Len(v) = 0 \/ v[1] # SEP)
    THEN base_dir \o <<SEP>> \o v
    ELSE v

\* the config-file value v as the slot of e holds it after the overlay and
\* the path resolution
FromConfig(e, v) ==
    IF e.arg = "STRING_ARRAY" THEN SplitList(v, 1, <<>>) ELSE Resolved(e, v)

C2_Original ==
    InitPluginsSucceeded =>
        \A e \in RegisteredEntries :
            (NotNamed(e) /\ ConfigKeys(e) # {}) =>
                \E kv \in ConfigKeys(e) : slots[e.slot] = FromConfig(e, kv.val)

LoadReturned == ret["load_plugins"] # "none"

\* every requested module exists
AllLoadable(names) ==
    names = NULL \/ \A k \in 1..Len(names) : names[k] \in Modules \cup {""}

\* C3: when every module load succeeds, chassis_frontend_load_plugins returns
\* 0 and the collection holds one plugin per non-empty requested name, in
\* request order, the empty names skipped; for a NULL or empty list it returns
\* 0 and the collection stays empty.
C3_LoadInOrder ==
    (LoadReturned /\ AllLoadable(plugin_names)) =>
        /\ ret["load_plugins"] = "0"
        /\ PluginNameSeq(plugins) =
              IF plugin_names = NULL THEN <<>> ELSE NonEmptyNames(plugin_names)

C3_Witness ==
    /\ LoadReturned
    /\ plugin_names # NULL
    /\ Len(plugin_names) = 2
    /\ plugin_names[1] = ""
    /\ PluginNameSeq(plugins) = <<plugin_names[2]>>

\* C4 as stated: after a failed load the collection holds none of the plugins
\* loaded before the failing one.
C4_Original ==
    (LoadReturned /\ ~AllLoadable(plugin_names)) =>
        /\ ret["load_plugins"] = "-1"
        /\ plugins = <<>>

\* C5: for a given base directory that is not absolute,
\* chassis_frontend_init_basedir returns -1, never calls chassis_get_basedir
\* and leaves the caller's slot as it was.
C5_RelativeBasedirRejected ==
    (ret["init_basedir"] # "none" /\ basedir_in # NULL
        /\ ~g_path_is_absolute(basedir_in)) =>
        /\ ret["init_basedir"] = "-1"
        /\ get_basedir_calls = 0
        /\ base_dir = basedir_in

C5_Witness ==
    /\ ret["init_basedir"] = "-1"
    /\ basedir_in = <<"r", SEP, "s">>
    /\ base_dir = basedir_in

\* chassis_frontend_init_plugins has run a parse
PluginParseRan == \E j \in 1..Len(calls) : calls[j][1] = "parse" /\ calls[j][2] # "main"

\* C6 as stated: chassis_frontend_init_plugins, having run its parses on a
\* command line of options that all carry their value, returns an error when
\* one of them is an option no registered group declares.
C6_Original ==
    (ret["init_plugins"] # "none" /\ PluginParseRan /\ AllValued
        /\ \E k \in 1..Len(argv0) : ~Declares(ctx, argv0[k])) =>
        ret["init_plugins"] = "-1"

\* groups j1 and j2 of the registry declare the same long name for two slots
Collide(j1, j2) ==
    { <<e1, e2>> \in Range(ctx.groups[j1].entries) \X Range(ctx.groups[j2].entries) :
          e1.long_name = e2.long_name /\ e1.slot # e2.slot }

\* C7 as stated: no two groups of the registry declare the same long name.
C7_Original ==
    \A j1, j2 \in 1..Len(ctx.groups) : j1 < j2 => Collide(j1, j2) = {}

\* C8 as stated: an option the command line does not name holds the value of
\* its key in the section named after its plugin.
C8_Original ==
    InitPluginsSucceeded =>
        \A j \in 1..Len(ctx.groups) : \A e \in Range(ctx.groups[j].entries) :
            (NotNamed(e) /\ ~keyfile.isnull
                /\ g_key_file_has_key(keyfile, ctx.groups[j].name, e.long_name)) =>
                slots[e.slot] =
                    FromConfig(e, g_key_file_get_string(keyfile, ctx.groups[j].name,
                                                        e.long_name))

\* C9: chassis_frontend_open_config_file checks the permissions first; when the
\* check fails it returns NULL and never parses; when the parse fails it frees
\* the key file and returns NULL; it returns a key file only when the check
\* and the parse both succeed.
C9_OpenConfigFile ==
    ret["open_config_file"] # "none" =>
        /\ kf_trace[1] \in {"filemode_check:ok", "filemode_check:fail"}
        /\ kf_trace[1] = "filemode_check:fail" =>
              /\ Len(kf_trace) = 1
              /\ keyfile.isnull /\ ret["open_config_file"] = "NULL"
        /\ "load_from_file:fail" \in Range(kf_trace) =>
              /\ Last(kf_trace) = "g_key_file_free"
              /\ keyfile.isnull /\ ret["open_config_file"] = "NULL"
        /\ ret["open_config_file"] = "keyfile" <=>
              /\ "filemode_check:ok" \in Range(kf_trace)
              /\ "load_from_file:ok" \in Range(kf_trace)
        /\ ret["open_config_file"] = "keyfile" =>
              /\ ~keyfile.isnull
              /\ "g_key_file_free" \notin Range(kf_trace)

C9_Witness ==
    /\ ret["open_config_file"] = "NULL"
    /\ "load_from_file:fail" \in Range(kf_trace)
    /\ Last(kf_trace) = "g_key_file_free"
    /\ keyfile.isnull

\* the value a search-path variable is to have
ExpectedEnv(key, dflt) ==
    IF set_path[key] # NULL THEN set_path[key]
    ELSE IF env0[key] # NULL THEN env0[key]
    ELSE dflt

\* C10: after chassis_frontend_init_lua_path, and after
\* chassis_frontend_init_lua_cpath, with a setenv that works, the variable is
\* the flag value if one was given, else its value in the environment if it
\* had one, else the default under the base directory and the program name.
C10_LuaPaths ==
    /\ (ret["init_lua_path"] = "0" /\ "LUA_PATH" \notin setenv_fails) =>
          env["LUA_PATH"] =
              ExpectedEnv("LUA_PATH",
                  base_dir \o <<SEP, "lib", SEP, "mysql-proxy", SEP, "lua", SEP, "?.lua">>)
    /\ (ret["init_lua_cpath"] = "0" /\ "LUA_CPATH" \notin setenv_fails) =>
          env["LUA_CPATH"] =
              ExpectedEnv("LUA_CPATH",
                  base_dir \o <<SEP, "lib", SEP, "mysql-proxy", SEP, "lua", SEP, "?.so">>)

C10_Witness ==
    /\ ret["init_lua_cpath"] = "0"
    /\ setenv_fails = {}
    /\ set_path["LUA_PATH"] = NULL /\ env0["LUA_PATH"] = NULL
    /\ env["LUA_PATH"] = <<SEP, "d", SEP, "lib", SEP, "mysql-proxy", SEP, "lua", SEP, "?.lua">>
    /\ set_path["LUA_CPATH"] = NULL /\ env0["LUA_CPATH"] = <<>>
    /\ env["LUA_CPATH"] = <<>>


\* the stage that returned a failure, when one did
FailedStages == { f \in Funcs : ret[f] \in {"-1", "NULL"} }

\* C11 as stated: every bootstrap stage that fails reports exactly one
\* diagnostic and returns a failure status, and hands no partial state to the
\* caller: no key file after a failed open, no plugin after a failed load.
C11_Original ==
    pc = "failed" =>
        /\ Cardinality(FailedStages) = 1
        /\ n_critical = 1
        /\ ret["open_config_file"] = "NULL" => keyfile.isnull
        /\ ret["load_plugins"] = "-1" => plugins = <<>>



\* how often the stage made the call ev
CountCalls(ev) == Cardinality({ k \in 1..Len(calls) : calls[k] = ev })

\* the argv0 positions of the elements still in argv, of those a parse wrote
\* to a slot, and of those a parse took as the value of the element before
Remaining == Range(argv_at)
Applied == { writes[j].pos : j \in 1..Len(writes) }
TakenAsValue == { writes[j].vpos : j \in 1..Len(writes) } \ {0}

\* the element is "--"
IsTerminator(t) == t = Tok("", NoArg)

\* a "--" still in argv stands before position k
BehindTerminator(k) ==
    \E j \in Remaining : j < k /\ IsTerminator(argv0[j])

\* element t of argv is an option of the entries es
DeclaredBy(es, t) == \E j \in 1..Len(es) : Matches(es[j], t)

\* the group of the plugin p declares t, by its long name or by its
\* group-qualified name
Owns(p, t) ==
    /\ HasOptions(p)
    /\ \/ DeclaredBy(PluginEntries(p.name), t)
       \/ /\ TextDash(t) > 1
          /\ AliasPrefix(p, Text(t), TextDash(t))
          /\ \E j \in 1..Len(PluginEntries(p.name)) :
                LongMatches(PluginEntries(p.name)[j].long_name, Text(t),
                            TextDash(t))

\* the loaded plugins whose group declares t, by index
Owners(t) == { k \in 1..Len(plugins) : Owns(plugins[k], t) }
FirstOwner(t) == CHOOSE o \in Owners(t) : \A h \in Owners(t) : o <= h

\* the loop has passed a plugin whose group declares t
Passed(t) == \E o \in 1..Len(plugins) : o < idx /\ Owns(plugins[o], t)

\* the elements of the command line that only a plugin's group declares
PluginOptions ==
    { k \in 1..Len(argv0) :
        /\ ~IsTerminator(argv0[k])
        /\ ~DeclaredBy(BaseMainEntries, argv0[k])
        /\ Owners(argv0[k]) # {} }

C14_WrittenOnce ==
    /\ \A i, j \in 1..Len(writes) : writes[i].pos = writes[j].pos => i = j
    /\ Applied \cap Remaining = {}
    /\ TakenAsValue \cap Remaining = {}
    /\ Applied \cap TakenAsValue = {}
    /\ \A k \in 1..Len(argv0) :
          k \notin Remaining =>
              \/ k \in Applied
              \/ k \in TakenAsValue
              \/ IsTerminator(argv0[k])
    /\ Len(argv) = Cardinality(Remaining)
    /\ (ret["init_base_options"] # "-1" /\ ret["init_plugins"] # "-1") =>
          \A e \in RegisteredEntries :
              (e.arg = "STRING_ARRAY" /\ InArgv(e)) =>
                  slots[e.slot] = ArrayOf(WrittenTo(e))
    /\ (AllValued /\ ret["init_plugins"] # "-1") =>
          \A k \in 1..Len(argv0) :
              Declares(ctx, argv0[k]) =>
                  /\ k \in Applied
                  /\ \A j \in 1..Len(writes) :
                        writes[j].pos = k =>
                            /\ writes[j].slot = Lookup(ctx, argv0[k]).slot
                            /\ writes[j].val = argv0[k].val

\* the command line gives a list-valued option twice, the parse of its plugin
\* appended both values, and the parse of a second plugin left the list alone
C14_Witness ==
    /\ InitPluginsSucceeded
    /\ Len(plugins) = 2
    /\ HasOptions(plugins[1]) /\ HasOptions(plugins[2])
    /\ \E e \in RegisteredEntries :
          /\ e.arg = "STRING_ARRAY"
          /\ Len(WrittenTo(e)) = 2
          /\ slots[e.slot] = ArrayOf(WrittenTo(e))
    /\ Len(writes) = 2
    /\ argv = <<>>

\* C15 as stated: after chassis_frontend_init_plugins succeeds every
\* path-typed option of every registered plugin group that has a value has an
\* absolute one.
C15_Original ==
    InitPluginsSucceeded =>
        \A e \in RegisteredEntries :
            (e.arg = "FILENAME" /\ slots[e.slot] # NULL) =>
                g_path_is_absolute(slots[e.slot])

\* no parse has failed: a failed parse leaves argv and the slots as they were
NoParseFailed ==
    /\ ret["init_base_options"] # "-1"
    /\ ~(ret["init_plugins"] = "-1" /\ Last(calls)[1] = "parse")

\* the plugins with options among the first n of the collection, by index
WithOptionsUpTo(n) ==
    { k \in 1..Len(plugins) : k <= n /\ HasOptions(plugins[k]) }

\* how many calls of a kind the stage made for plugins
CountKind(kind) ==
    Cardinality({ k \in 1..Len(calls) :
                    calls[k][1] = kind /\ calls[k][2] # "main" })

\* the config file has an unreadable value for an entry of p the parse left unset
OverlayWouldFail(p) ==
    \E j \in 1..Len(PluginEntries(p.name)) :
        LET e == PluginEntries(p.name)[j]
        IN  InConfig(e) /\ ConfigValue(e) = INVALID /\ slots[e.slot] = NULL

\* C16: a parse error or an overlay error at plugin i ends
\* chassis_frontend_init_plugins at once with -1: the last call made is the
\* failing parse or overlay of plugin i, a group was added and a parse run for
\* the plugins with options up to i only, the resolution ran for those before i
\* only, and no plugin whose pass completed had an overlay error (seen while
\* no failed parse has reverted the slots).
C16_FailureEndsStage ==
    /\ ret["init_plugins"] = "-1" =>
          /\ pc = "failed"
          /\ idx \in 1..Len(plugins) /\ HasOptions(plugins[idx])
          /\ Last(calls) \in { <<"parse", plugins[idx].name>>,
                               <<"overlay", plugins[idx].name>> }
          /\ Len(ctx.groups) = Cardinality(WithOptionsUpTo(idx))
          /\ CountKind("add_group") = Cardinality(WithOptionsUpTo(idx))
          /\ CountKind("parse") = Cardinality(WithOptionsUpTo(idx))
          /\ CountKind("overlay") <= Cardinality(WithOptionsUpTo(idx))
          /\ CountKind("resolve") = Cardinality(WithOptionsUpTo(idx - 1))
    /\ NoParseFailed =>
          \A k \in WithOptionsUpTo(idx - 1) : ~OverlayWouldFail(plugins[k])

\* the overlay of the first of two plugins with options failed: the second has
\* no group, and the relative path the overlay wrote for the first is unresolved
C16_Witness ==
    /\ ret["init_plugins"] = "-1"
    /\ Last(calls)[1] = "overlay"
    /\ idx < Len(plugins) /\ HasOptions(plugins[idx + 1])
    /\ Len(ctx.groups) = idx
    /\ \E j \in 1..Len(PluginEntries(plugins[idx].name)) :
          LET e == PluginEntries(plugins[idx].name)[j]
          IN  /\ e.arg = "FILENAME"
              /\ slots[e.slot] # NULL
              /\ ~g_path_is_absolute(slots[e.slot])


\* plugin p gives no option entries
NoSchema(p) == Len(PluginEntries(p.name)) = 0

\* the loaded plugins that give option entries, by index
SchemaPlugins == { k \in 1..Len(plugins) : ~NoSchema(plugins[k]) }

\* C17: the pass of the loop for a plugin without option entries returns no
\* error and changes nothing: no group is added, argv and the slots stay, no
\* parse, overlay or resolution is run; so when the stage succeeds it has run
\* as many parses as plugins have entries, and none when no plugin has any.
C17_NoSchemaSkipped ==
    /\ (pc = "init_plugins" /\ idx <= Len(plugins) /\ NoSchema(plugins[idx])) =>
          InitPluginsBody(plugins[idx], ctx, argv, slots, keyfile, base_dir)
              = [ret |-> "0", ctx |-> ctx, argv |-> argv,
                 kept |-> [k \in 1..Len(argv) |-> k], slots |-> slots,
                 calls |-> <<>>, writes |-> <<>>, critical |-> 0]
    /\ InitPluginsSucceeded =>
          /\ CountKind("parse") = Cardinality(SchemaPlugins)
          /\ CountKind("add_group") = Cardinality(SchemaPlugins)
          /\ Len(ctx.groups) = Cardinality(SchemaPlugins)
          /\ \A k \in 1..Len(plugins) :
                NoSchema(plugins[k]) =>
                    /\ CountCalls(<<"parse", plugins[k].name>>) = 0
                    /\ CountCalls(<<"overlay", plugins[k].name>>) = 0
                    /\ CountCalls(<<"resolve", plugins[k].name>>) = 0
          /\ SchemaPlugins = {} =>
                /\ calls = << <<"parse", "main">> >>
                /\ \A k \in 1..Len(writes) : writes[k].slot = "config_file"

\* a plugin without entries was passed over between the parse of the base
\* options and that of a plugin with entries, with options still in argv
C17_Witness ==
    /\ InitPluginsSucceeded
    /\ Len(plugins) = 2
    /\ NoSchema(plugins[1]) /\ ~NoSchema(plugins[2])
    /\ CountKind("parse") = 1
    /\ Len(writes) >= 1
    /\ writes[Len(writes)].slot # "config_file"
    /\ ~keyfile.isnull


\* C18: chassis_frontend_write_pidfile returns -1 with the error set when
\* open() fails, and then the file is as it was and there is no descriptor; it
\* returns -1 with the error set when write() fails; it returns 0 with no error
\* otherwise; and the descriptor is closed whenever open() gave one, the failed
\* write included.
C18_WritePidfile ==
    ret["write_pidfile"] # "none" =>
        /\ ~pidfile.open_ok =>
              /\ ret["write_pidfile"] = "-1" /\ pidfile.gerr = "open"
              /\ pidfile.fd = "none"
              /\ pidfile.content = pidfile.before
        /\ (pidfile.open_ok /\ pidfile.n < 0) =>
              /\ ret["write_pidfile"] = "-1" /\ pidfile.gerr = "write"
              /\ pidfile.fd = "closed"
        /\ (pidfile.open_ok /\ pidfile.n >= 0) =>
              /\ ret["write_pidfile"] = "0" /\ pidfile.gerr = "none"
              /\ pidfile.fd = "closed"
              /\ pidfile.content = SubSeq(Decimal(pidfile.pid), 1, pidfile.n)
        /\ pidfile.fd # "open"

\* write() failed on the descriptor open() gave: -1, the error set, the
\* descriptor closed
C18_Witness ==
    /\ ret["write_pidfile"] = "-1"
    /\ pidfile.open_ok /\ pidfile.n < 0
    /\ pidfile.gerr = "write"
    /\ pidfile.fd = "closed"
    /\ pidfile.before # NULL

=============================================================================
